---- MODULE Spec2Model ----
(***************************************************************************)
(* SteamReview: summarise() of llm.py and run() of main.py.                *)
(*                                                                         *)
(* Python strings are sequences of one-character strings, so that strip,   *)
(* lower, whitespace collapsing and splitting are computed on characters.  *)
(* A JSON value is a record [t, v]: t is its Python type and v is the text *)
(* str() gives for it (for a string: its characters).                      *)
(***************************************************************************)
EXTENDS Integers, Sequences, FiniteSets, TLC

\* ---------------------------------------------------------------- bounds
MaxWords == 18
MaxRetries == 2
MaxReviews == 2

\* ------------------------------------------------- summarise's defaults
DefaultRetries == 2
DefaultBackoff == 8
DefaultExtremeMin == 6
DefaultExtremeMax == 16
Target == 10

\* --------------------------------------------------------------- strings
IsWS(c) == c \in {" ", "\t", "\n"}

RECURSIVE LStrip(_)
LStrip(s) == IF s # <<>> /\ IsWS(Head(s)) THEN LStrip(Tail(s)) ELSE s

RECURSIVE RStrip(_)
RStrip(s) ==
    IF s # <<>> /\ IsWS(s[Len(s)]) THEN RStrip(SubSeq(s, 1, Len(s) - 1)) ELSE s

\* str.strip()
Strip(s) == RStrip(LStrip(s))

UpperToLower ==
    [c \in {"A", "B", "D", "E", "G", "I", "O", "P", "S", "T", "V"} |->
        CASE c = "A" -> "a" [] c = "B" -> "b" [] c = "D" -> "d" [] c = "E" -> "e"
          [] c = "G" -> "g" [] c = "I" -> "i" [] c = "O" -> "o" [] c = "P" -> "p"
          [] c = "S" -> "s" [] c = "T" -> "t" [] c = "V" -> "v"]

\* str.lower()
Lower(s) ==
    [k \in 1..Len(s) |-> IF s[k] \in DOMAIN UpperToLower THEN UpperToLower[s[k]] ELSE s[k]]

\* _WS_RE.sub(" ", s): every run of whitespace becomes one space
RECURSIVE CollapseWS(_)
CollapseWS(s) ==
    IF s = <<>> THEN <<>>
    ELSE IF IsWS(Head(s)) THEN <<" ">> \o CollapseWS(LStrip(s))
    ELSE <<Head(s)>> \o CollapseWS(Tail(s))

\* s.split(" "): the pieces between single spaces, empty pieces included
RECURSIVE SplitFrom(_, _)
SplitFrom(s, cur) ==
    IF s = <<>> THEN <<cur>>
    ELSE IF Head(s) = " " THEN <<cur>> \o SplitFrom(Tail(s), <<>>)
    ELSE SplitFrom(Tail(s), Append(cur, Head(s)))

Split(s) == SplitFrom(s, <<>>)

\* the words _count_words counts
WordsOf(text) == SelectSeq(Split(CollapseWS(Strip(text))), LAMBDA w : w # <<>>)

\* (mutant) characters counted instead of words
count_chars(text) == Len(text)

\* _count_words(text)
count_words(text) == Len(WordsOf(text))

Abs(x) == IF x < 0 THEN -x ELSE x

\* ----------------------------------------------------------- JSON values
Str(s) == [t |-> "str", v |-> s]
Null == [t |-> "null", v |-> <<"N", "o", "n", "e">>]
NoField == [t |-> "missing", v |-> <<>>]
Num(d) == [t |-> "num", v |-> <<d>>]
EmptyList == [t |-> "list", v |-> <<"[", "]">>]
OneList == [t |-> "list", v |-> <<"[", "1", "]">>]
EmptyObj == [t |-> "dict", v |-> <<"{", "}">>]
OneObj == [t |-> "dict", v |-> <<"{", "'", "a", "'", ":", " ", "1", "}">>]

\* dict.get(key, default)
Get(field, default) == IF field.t = "missing" THEN default ELSE field

\* bool(x), as `x or ""` tests it
Truthy(x) ==
    CASE x.t = "str" -> x.v # <<>>
      [] x.t = "null" -> FALSE
      [] x.t = "num" -> x.v # <<"0">>
      [] x.t = "list" -> x.v # <<"[", "]">>
      [] x.t = "dict" -> x.v # <<"{", "}">>

\* str(x)
PyStr(x) == x.v

PosTokens == {<<"p", "o", "s">>, <<"p", "o", "s", "i", "t", "i", "v", "e">>,
              <<"THUMBS_UP">>, <<"g", "o", "o", "d">>}
NegTokens == {<<"n", "e", "g">>, <<"n", "e", "g", "a", "t", "i", "v", "e">>,
              <<"THUMBS_DOWN">>, <<"b", "a", "d">>}

\* _normalize_sentiment(s): [exc, val]; `(s or "")` keeps a truthy s, and
\* .strip() exists on strings only
normalize_sentiment(s) ==
    IF Truthy(s) /\ s.t # "str"
    THEN [exc |-> "AttributeError", val |-> "none"]
    ELSE LET x == Lower(Strip(IF Truthy(s) THEN s.v ELSE <<>>))
         IN  [exc |-> "none",
              val |-> IF x \in PosTokens THEN "pos"
                      ELSE IF x \in NegTokens THEN "neg"
                      ELSE "mixed"]

\* ------------------------------------------------- what the model answers
RECURSIVE Sentence(_, _, _)
Sentence(n, w, gap) ==
    IF n = 0 THEN <<>>
    ELSE IF n = 1 THEN w
    ELSE w \o gap \o Sentence(n - 1, w, gap)

Plain(n, w) == Sentence(n, w, <<" ">>)
Padded(n, w) == <<"\n">> \o Sentence(n, w, <<" ", " ">>) \o <<" ">>

SentimentValues ==
    { Str(<<"p", "o", "s">>), Str(<<" ", "P", "o", "s", "i", "t", "i", "v", "e", "\n">>),
      Str(<<"B", "A", "D">>), Str(<<"m", "e", "h">>), Str(<<>>),
      Null, NoField, Num("0"), Num("1"), EmptyList, OneList, EmptyObj, OneObj }

PrimaryTldrs ==
    { Str(Plain(n, <<"a">>)) : n \in 0..MaxWords }
    \cup { Str(Padded(n, <<"a">>)) : n \in 0..MaxWords }
    \cup { Null, NoField }

RepairTldrs ==
    { Str(Plain(n, <<"b">>)) : n \in 0..MaxWords }
    \cup { Str(Padded(Target, <<"b">>)), Null, NoField }

Raise(kind, origin) ==
    [exc |-> kind, origin |-> origin, json |-> "none", sentiment |-> NoField, tldr |-> NoField]
Value(type) ==
    [exc |-> "none", origin |-> "none", json |-> type, sentiment |-> NoField, tldr |-> NoField]
Dict(sentiment, tldr) ==
    [exc |-> "none", origin |-> "none", json |-> "dict", sentiment |-> sentiment, tldr |-> tldr]

NoData == Value("none")

\* _ask_gemini: generate_content raises, json.loads raises, or a JSON value
AskFailures == { Raise("CallError", "generate_content"), Raise("JSONDecodeError", "json.loads") }
NonDicts == { Value("list"), Value("null") }


\* ------------------------------------------------------------------ state
VARIABLES
    \* summarise's frame (llm.py)
    pc,           \* "idle", "primary", "sleep", "repair", "returned", "raised"
    retries, backoff, extreme_min, extreme_max,
    attempt, last_err, data, tldr, sentiment, wc, data2, result,
    log,          \* what this invocation did so far: model calls and sleeps, in order
    \* run's frame (main.py)
    rpc,          \* "none", "fetch", "load", "loop", "summarise", "save", "render", "done", "exit1"
    no_cache, cache_file, reviews, idx, cache, heap, snapshots,
    cache_loads, file_reads, file_writes, rendered

sumVars == <<pc, retries, backoff, extreme_min, extreme_max,
             attempt, last_err, data, tldr, sentiment, wc, data2, result, log>>
runVars == <<rpc, no_cache, cache_file, reviews, idx, cache, heap, snapshots,
             cache_loads, file_reads, file_writes, rendered>>
vars == <<sumVars, runVars>>

NoErr == [kind |-> "none", origin |-> "none", call |-> 0]
NoResult == [sentiment |-> "none", tldr |-> <<>>]

\* the parameter sets summarise is called with
ExtremeChoices == { <<DefaultExtremeMin, DefaultExtremeMax>>, <<9, 11>> }

\* every sentiment with a tldr that is accepted and one that is repaired, and
\* every tldr with a sentiment that is normalised and one that is missing
PrimaryOutcomes ==
    AskFailures \cup NonDicts
    \cup { Dict(s, Str(Plain(n, <<"a">>))) : s \in SentimentValues, n \in {3, Target} }
    \cup { Dict(s, t) : s \in {Str(<<" ", "P", "o", "s", "i", "t", "i", "v", "e", "\n">>), NoField},
                        t \in PrimaryTldrs }

RepairOutcomes ==
    AskFailures \cup NonDicts
    \cup { Dict(s, t) : s \in {Str(<<"p", "o", "s">>), Str(<<"n", "e", "g">>)}, t \in RepairTldrs }

\* what the model answers when run calls summarise
RunPrimaryOutcomes ==
    { Raise("CallError", "generate_content"),
      Dict(Str(<<"p", "o", "s">>), Str(Plain(Target, <<"a">>))),
      Dict(Str(<<"B", "A", "D">>), Str(Plain(3, <<"a">>))) }
RunRepairOutcomes == { Dict(Str(<<"n", "e", "g">>), Str(Plain(Target, <<"b">>))) }

\* tldr = str(data.get("tldr", "")).strip(), wc = _count_words(tldr) and
\* sentiment = _normalize_sentiment(data.get("sentiment")), tabulated over the
\* fields the model can answer
TldrFields == PrimaryTldrs \cup RepairTldrs
StrippedTldr == [f \in TldrFields |-> Strip(PyStr(Get(f, Str(<<>>))))]
WordCount == [f \in TldrFields |-> count_words(StrippedTldr[f])]
Normalized == [f \in SentimentValues |-> normalize_sentiment(Get(f, Null))]

\* summarise(review_text, retries, backoff, ..., extreme_min, extreme_max): entry
Enter(r, b, emin, emax) ==
    /\ pc' = "primary"
    /\ retries' = r /\ backoff' = b /\ extreme_min' = emin /\ extreme_max' = emax
    /\ attempt' = 0
    /\ last_err' = NoErr
    /\ data' = NoData /\ data2' = NoData
    /\ tldr' = <<>> /\ sentiment' = "none" /\ wc' = 0
    /\ result' = NoResult
    /\ log' = <<>>

\* (mutant) the loop runs range(retries): the last attempt is never made
FailedOneAttemptShort(e) ==
    /\ last_err' = e
    /\ pc' = IF attempt < retries - 1 THEN "sleep" ELSE "raised"
    /\ log' = Append(log, [ev |-> "primary", ok |-> FALSE, arg |-> attempt])
    /\ data' = NoData /\ tldr' = <<>> /\ sentiment' = "none" /\ wc' = 0
    /\ UNCHANGED <<retries, backoff, extreme_min, extreme_max, attempt, data2, result>>

\* except Exception as e (lines 131-136): remember e; sleep next, or re-raise
\* it after the last attempt. The locals of the failed attempt are dead.
Failed(e) ==
    /\ last_err' = e
    /\ pc' = IF attempt < retries THEN "sleep" ELSE "raised"
    /\ log' = Append(log, [ev |-> "primary", ok |-> FALSE, arg |-> attempt])
    /\ data' = NoData /\ tldr' = <<>> /\ sentiment' = "none" /\ wc' = 0
    /\ UNCHANGED <<retries, backoff, extreme_min, extreme_max, attempt, data2, result>>

\* (mutant) the result is kept but the loop goes on to its next pass
ReturnOutsideLoop(s, t) ==
    /\ pc' = IF attempt < retries THEN "sleep" ELSE "returned"
    /\ result' = [sentiment |-> s, tldr |-> t]
    /\ last_err' = NoErr

\* return {"sentiment": sentiment, "tldr": tldr}
Return(s, t) ==
    /\ pc' = "returned"
    /\ result' = [sentiment |-> s, tldr |-> t]
    /\ last_err' = NoErr

\* (mutant) an empty tldr is not sent to repair
NeedsRepairNonEmpty(n) == n # 0 /\ (n < extreme_min \/ n > extreme_max)

\* (mutant) the extremes themselves count as far
NeedsRepairInclusive(n) == n <= extreme_min \/ n >= extreme_max

\* wc < extreme_min or wc > extreme_max
NeedsRepair(n) == n < extreme_min \/ n > extreme_max

\* one pass of the try block up to the repair call or the return (lines 107-112, 129)
PrimaryCall ==
    /\ pc = "primary"
    /\ \E o \in (IF rpc = "summarise" THEN RunPrimaryOutcomes ELSE PrimaryOutcomes) :
        LET call == attempt + 1
            t == StrippedTldr[o.tldr]
            s == Normalized[o.sentiment]
            n == WordCount[o.tldr]
        IN  IF o.exc # "none"
            THEN Failed([kind |-> o.exc, origin |-> o.origin, call |-> call])
            ELSE IF o.json # "dict"
            THEN Failed([kind |-> "AttributeError", origin |-> "data.get", call |-> call])
            ELSE IF s.exc # "none"
            THEN Failed([kind |-> s.exc, origin |-> "_normalize_sentiment", call |-> call])
            ELSE /\ data' = o
                 /\ tldr' = t /\ sentiment' = s.val /\ wc' = n
                 /\ log' = Append(log, [ev |-> "primary", ok |-> TRUE, arg |-> attempt])
                 /\ IF NeedsRepair(n)
                    THEN /\ pc' = "repair"
                         /\ UNCHANGED <<last_err, result>>
                    ELSE Return(s.val, t)
                 /\ UNCHANGED <<retries, backoff, extreme_min, extreme_max, attempt, data2>>
    /\ UNCHANGED runVars

\* (mutant) the attempt counted from 1
SleepTimeFromOne(b, a) == b * 2^(a + 1)

\* backoff * (2 ** attempt)
SleepTime(b, a) == b * 2^a

\* time.sleep(backoff * (2 ** attempt)), then the next pass of the loop
Sleep ==
    /\ pc = "sleep"
    /\ log' = Append(log, [ev |-> "sleep", ok |-> TRUE, arg |-> SleepTime(backoff, attempt)])
    /\ attempt' = attempt + 1
    /\ pc' = "primary"
    /\ UNCHANGED <<retries, backoff, extreme_min, extreme_max, last_err, data, tldr,
                   sentiment, wc, data2, result>>
    /\ UNCHANGED runVars

\* (mutant) a tie adopts the repair
CloserOrEqual(n2, n) == Abs(n2 - Target) <= Abs(n - Target)

\* the repaired tldr replaces the original when it is closer to the target
Closer(n2, n) == Abs(n2 - Target) < Abs(n - Target)

\* (mutant) a failed repair call is asked once more
RepairFailedAsksAgain(e) ==
    /\ tldr' = tldr /\ wc' = wc
    /\ IF data2 = NoData
       THEN pc' = "repair" /\ result' = result /\ last_err' = last_err
       ELSE Return(sentiment, tldr)

\* (mutant) no inner try: the repair's error reaches the outer handler
RepairFailedPropagates(e) ==
    /\ tldr' = tldr /\ wc' = wc
    /\ last_err' = e
    /\ result' = result
    /\ pc' = IF attempt < retries THEN "sleep" ELSE "raised"

\* except Exception: pass (lines 126-127), then line 129 with the original tldr
RepairFailed(e) ==
    /\ tldr' = tldr /\ wc' = wc
    /\ Return(sentiment, tldr)

\* (mutant) an adopted repair brings its sentiment along
RepairCallTakesSentiment ==
    /\ pc = "repair"
    /\ \E o \in (IF rpc = "summarise" THEN RunRepairOutcomes ELSE RepairOutcomes) :
        LET good == o.exc = "none" /\ o.json = "dict"
            t2 == StrippedTldr[o.tldr]
            n2 == WordCount[o.tldr]
        IN  /\ data2' = o
            /\ log' = Append(log, [ev |-> "repair", ok |-> good, arg |-> attempt])
            /\ IF o.exc # "none"
               THEN RepairFailed([kind |-> o.exc, origin |-> o.origin, call |-> attempt + 1])
               ELSE IF o.json # "dict"
               THEN RepairFailed([kind |-> "AttributeError", origin |-> "data2.get",
                                  call |-> attempt + 1])
               ELSE IF Closer(n2, wc)
               THEN /\ tldr' = t2 /\ wc' = n2
                    /\ Return(normalize_sentiment(Get(o.sentiment, Null)).val, t2)
               ELSE /\ tldr' = tldr /\ wc' = wc
                    /\ Return(sentiment, tldr)
    /\ UNCHANGED <<retries, backoff, extreme_min, extreme_max, attempt, data, sentiment>>
    /\ UNCHANGED runVars

\* the one-shot repair call and the return (lines 113-129)
RepairCall ==
    /\ pc = "repair"
    /\ \E o \in (IF rpc = "summarise" THEN RunRepairOutcomes ELSE RepairOutcomes) :
        LET good == o.exc = "none" /\ o.json = "dict"
            t2 == StrippedTldr[o.tldr]
            n2 == WordCount[o.tldr]
        IN  /\ data2' = o
            /\ log' = Append(log, [ev |-> "repair", ok |-> good, arg |-> attempt])
            /\ IF o.exc # "none"
               THEN RepairFailed([kind |-> o.exc, origin |-> o.origin, call |-> attempt + 1])
               ELSE IF o.json # "dict"
               THEN RepairFailed([kind |-> "AttributeError", origin |-> "data2.get",
                                  call |-> attempt + 1])
               ELSE IF Closer(n2, wc)
               THEN /\ tldr' = t2 /\ wc' = n2
                    /\ Return(sentiment, t2)
               ELSE /\ tldr' = tldr /\ wc' = wc
                    /\ Return(sentiment, tldr)
    /\ UNCHANGED <<retries, backoff, extreme_min, extreme_max, attempt, data, sentiment>>
    /\ UNCHANGED runVars

\* ------------------------------------------------- summarise on its own
IdleRun ==
    /\ rpc = "none" /\ no_cache = FALSE /\ cache_file = "none"
    /\ reviews = <<>> /\ idx = 0 /\ cache = <<>> /\ heap = <<>> /\ snapshots = <<>>
    /\ cache_loads = 0 /\ file_reads = 0 /\ file_writes = 0 /\ rendered = <<>>

InitSummarise ==
    /\ IdleRun
    /\ pc = "primary"
    /\ retries \in 0..MaxRetries
    /\ backoff = DefaultBackoff
    /\ \E x \in ExtremeChoices : extreme_min = x[1] /\ extreme_max = x[2]
    /\ attempt = 0 /\ last_err = NoErr /\ data = NoData /\ data2 = NoData
    /\ tldr = <<>> /\ sentiment = "none" /\ wc = 0 /\ result = NoResult /\ log = <<>>

NextSummarise == PrimaryCall \/ Sleep \/ RepairCall

SummariseSpec == InitSummarise /\ [][NextSummarise]_vars

\* summarise is sequential code: while it has neither returned nor raised its
\* next statement runs, and every model call and every sleep comes back
SummariseFairSpec == SummariseSpec /\ WF_vars(NextSummarise)

\* ------------------------------------------------------------ run (main.py)
Authors == {"alice", "bob"}
Texts == {"great game", "bad port"}

\* _hash_text: the SHA-1 digest of the text, distinct for distinct texts
HashOf == [t \in Texts |-> IF t = "great game" THEN "sha1:73c1" ELSE "sha1:0be9"]
hash_text(text) == HashOf[text]

\* fetch_reviews(...): up to MaxReviews reviews {author, text, recommended};
\* alice recommends what she reviews and bob does not
ReviewValues == { [author |-> a, text |-> t, recommended |-> (a = "alice")] : a \in Authors, t \in Texts }
ReviewLists == UNION { [1..n -> ReviewValues] : n \in 0..MaxReviews }

\* a Python object on the heap: a dict with the keys run gives it, or a value
\* of another type; "absent" and <<>> stand for a key the dict does not have
Obj(t, s, tl, a, r, e) ==
    [t |-> t, sentiment |-> s, tldr |-> tl, author |-> a, recommended |-> r, error |-> e]
SummaryObj(res) == Obj("dict", res.sentiment, res.tldr, "absent", "absent", "absent")
ErrorObj(e, a) == Obj("dict", "absent", <<>>, a, "absent", e)
StringObj == Obj("str", "absent", <<>>, "absent", "absent", "absent")
RecFlag(b) == IF b THEN "True" ELSE "False"

\* the cache file: missing, not JSON, or a JSON value
NoEntries == [k \in {} |-> StringObj]
File(state, type, entries) == [state |-> state, json |-> type, entries |-> entries]
OldSummary == [sentiment |-> "pos", tldr |-> Plain(Target, <<"c">>)]
FileChoices ==
    { File("missing", "none", NoEntries),
      File("corrupt", "none", NoEntries),
      File("json", "list", NoEntries),
      File("json", "num", NoEntries),
      File("json", "dict", [k \in {hash_text("great game")} |-> SummaryObj(OldSummary)]),
      File("json", "dict", [k \in {hash_text("great game")} |-> StringObj]) }

\* the in-memory cache: its Python type, and for a dict the object each key names
Cache(type, m) == [t |-> type, m |-> m]
EmptyCache == Cache("dict", [k \in {} |-> 0])

Rev == reviews[idx]
Key == hash_text(Rev.text)

\* summarise's frame when no invocation is under way
Idle ==
    /\ pc' = "idle"
    /\ retries' = DefaultRetries /\ backoff' = DefaultBackoff
    /\ extreme_min' = DefaultExtremeMin /\ extreme_max' = DefaultExtremeMax
    /\ attempt' = 0 /\ last_err' = NoErr /\ data' = NoData /\ data2' = NoData
    /\ tldr' = <<>> /\ sentiment' = "none" /\ wc' = 0 /\ result' = NoResult
    /\ log' = <<>>

\* (mutant) the cache is loaded before the reviews are fetched
FetchAfterLoad ==
    /\ rpc = "fetch"
    /\ \/ \E rs \in ReviewLists : reviews' = rs /\ rpc' = "load" /\ cache_loads' = cache_loads
       \/ reviews' = reviews /\ rpc' = "exit1" /\ cache_loads' = cache_loads + 1
    /\ UNCHANGED <<no_cache, cache_file, idx, cache, heap, snapshots,
                   file_reads, file_writes, rendered>>
    /\ UNCHANGED sumVars

\* fetch_reviews returns or raises (lines 80-87)
Fetch ==
    /\ rpc = "fetch"
    /\ \/ \E rs \in ReviewLists : reviews' = rs /\ rpc' = "load"
       \/ reviews' = reviews /\ rpc' = "exit1"
    /\ UNCHANGED <<no_cache, cache_file, idx, cache, heap, snapshots, cache_loads,
                   file_reads, file_writes, rendered>>
    /\ UNCHANGED sumVars

\* _load_cache(path): the file's JSON value, {} when missing or not JSON
LoadedType(f) == IF f.state = "json" THEN f.json ELSE "dict"
LoadedKeys(f) == IF f.state = "json" THEN DOMAIN f.entries ELSE {}

\* the objects json.loads builds, one per entry, in the order of the keys
KeyOrder(keys) == CHOOSE q \in [1..Cardinality(keys) -> keys] : \A k \in keys : \E j \in DOMAIN q : q[j] = k

\* cache = {} if no_cache else _load_cache(cache_file); snapshots = [] (lines 89-90)
LoadCache ==
    /\ rpc = "load"
    /\ IF no_cache
       THEN /\ cache' = EmptyCache /\ heap' = <<>>
            /\ UNCHANGED <<cache_loads, file_reads>>
       ELSE LET keys == LoadedKeys(cache_file)
                q == KeyOrder(keys)
            IN  /\ heap' = [j \in 1..Cardinality(keys) |-> cache_file.entries[q[j]]]
                /\ cache' = Cache(LoadedType(cache_file),
                                  [k \in keys |-> CHOOSE j \in DOMAIN q : q[j] = k])
                /\ cache_loads' = cache_loads + 1
                /\ file_reads' = file_reads + (IF cache_file.state = "missing" THEN 0 ELSE 1)
    /\ snapshots' = <<>>
    /\ idx' = 1
    /\ rpc' = "loop"
    /\ UNCHANGED <<no_cache, cache_file, reviews, file_writes, rendered>>
    /\ UNCHANGED sumVars

\* (mutant) the error is not caught: the run stops
CaughtAborts(h, e) ==
    /\ heap' = h
    /\ snapshots' = snapshots
    /\ idx' = idx
    /\ rpc' = "exit1"

\* except Exception as e: snapshots.append({"error": str(e), "author": rev["author"]})
\* (lines 122-125), then the next review
Caught(h, e) ==
    /\ heap' = Append(h, ErrorObj(e, Rev.author))
    /\ snapshots' = Append(snapshots, Len(h) + 1)
    /\ idx' = idx + 1
    /\ rpc' = "loop"

\* s["author"] = rev["author"]; s["recommended"] = rev.get("recommended");
\* snapshots.append(s) (lines 119-121): s is the object itself, not a copy
Stamp(h, s) ==
    IF h[s].t # "dict"
    THEN Caught(h, "TypeError")
    ELSE /\ heap' = [h EXCEPT ![s].author = Rev.author,
                              ![s].recommended = RecFlag(Rev.recommended)]
         /\ snapshots' = Append(snapshots, s)
         /\ idx' = idx + 1
         /\ rpc' = "loop"

InLoop == rpc = "loop" /\ idx <= Len(reviews)

\* (mutant) the cache is never consulted
KeyNeverInCache == FALSE

\* `key in cache` (line 103)
KeyInCache == cache.t = "dict" /\ Key \in DOMAIN cache.m

\* line 103 raises: `in` is not defined on a number
CacheLookupFails ==
    /\ InLoop /\ ~no_cache /\ cache.t = "num"
    /\ Caught(heap, "TypeError")
    /\ UNCHANGED <<no_cache, cache_file, reviews, cache, cache_loads, file_reads,
                   file_writes, rendered>>
    /\ UNCHANGED sumVars

\* s = cache[key] (lines 103-105, 119-121)
ServeFromCache ==
    /\ InLoop /\ ~no_cache /\ cache.t # "num" /\ KeyInCache
    /\ Stamp(heap, cache.m[Key])
    /\ UNCHANGED <<no_cache, cache_file, reviews, cache, cache_loads, file_reads,
                   file_writes, rendered>>
    /\ UNCHANGED sumVars

\* s = summarise(rev["text"]) (line 107): the call
CallSummarise ==
    /\ InLoop /\ (no_cache \/ (cache.t # "num" /\ ~KeyInCache))
    /\ Enter(DefaultRetries, DefaultBackoff, DefaultExtremeMin, DefaultExtremeMax)
    /\ rpc' = "summarise"
    /\ UNCHANGED <<no_cache, cache_file, reviews, idx, cache, heap, snapshots, cache_loads,
                   file_reads, file_writes, rendered>>

\* summarise returned (lines 107-109, 119-121): cache[key] = s, then s is stamped
StoreSummary ==
    /\ rpc = "summarise" /\ pc = "returned"
    /\ LET s == Len(heap) + 1
           h == Append(heap, SummaryObj(result))
       IN  IF no_cache
           THEN cache' = cache /\ Stamp(h, s)
           ELSE IF cache.t # "dict"
           THEN cache' = cache /\ Caught(h, "TypeError")
           ELSE /\ cache' = Cache("dict", [k \in DOMAIN cache.m \cup {Key} |->
                                              IF k = Key THEN s ELSE cache.m[k]])
                /\ Stamp(h, s)
    /\ Idle
    /\ UNCHANGED <<no_cache, cache_file, reviews, cache_loads, file_reads, file_writes,
                   rendered>>

\* (mutant) the failure is stored under the review's key like a summary
SummariseRaisedCachesError ==
    /\ rpc = "summarise" /\ pc = "raised"
    /\ Caught(heap, last_err.kind)
    /\ Idle
    /\ cache' = IF ~no_cache /\ cache.t = "dict"
                THEN [cache EXCEPT !.m = (Key :> (Len(heap) + 1)) @@ @]
                ELSE cache
    /\ UNCHANGED <<no_cache, cache_file, reviews, cache_loads, file_reads,
                   file_writes, rendered>>

\* summarise raised (lines 122-123)
SummariseRaised ==
    /\ rpc = "summarise" /\ pc = "raised"
    /\ Caught(heap, last_err.kind)
    /\ Idle
    /\ UNCHANGED <<no_cache, cache_file, reviews, cache, cache_loads, file_reads,
                   file_writes, rendered>>

\* json.dumps(cache): every key with the object it names, as it is now
Dumped(c, h) == File("json", c.t, [k \in DOMAIN c.m |-> h[c.m[k]]])

\* (mutant) a cache with nothing in it is not written
SaveCacheSkipsEmpty ==
    /\ rpc = "loop" /\ idx > Len(reviews)
    /\ IF no_cache \/ DOMAIN cache.m = {}
       THEN UNCHANGED <<cache_file, file_writes>>
       ELSE /\ cache_file' = Dumped(cache, heap)
            /\ file_writes' = file_writes + 1
    /\ rpc' = "render"
    /\ UNCHANGED <<no_cache, reviews, idx, cache, heap, snapshots, cache_loads, file_reads,
                   rendered>>
    /\ UNCHANGED sumVars

\* after the loop: if not no_cache: _save_cache(cache_file, cache) (lines 127-128)
SaveCache ==
    /\ rpc = "loop" /\ idx > Len(reviews)
    /\ IF no_cache
       THEN UNCHANGED <<cache_file, file_writes>>
       ELSE /\ cache_file' = Dumped(cache, heap)
            /\ file_writes' = file_writes + 1
    /\ rpc' = "render"
    /\ UNCHANGED <<no_cache, reviews, idx, cache, heap, snapshots, cache_loads, file_reads,
                   rendered>>
    /\ UNCHANGED sumVars

\* the snapshots are printed and saved (lines 130-137): each as it is now
Render ==
    /\ rpc = "render"
    /\ rendered' = [j \in 1..Len(snapshots) |-> heap[snapshots[j]]]
    /\ rpc' = "done"
    /\ UNCHANGED <<no_cache, cache_file, reviews, idx, cache, heap, snapshots, cache_loads,
                   file_reads, file_writes>>
    /\ UNCHANGED sumVars

Init ==
    /\ rpc = "fetch"
    /\ no_cache \in BOOLEAN
    /\ cache_file \in FileChoices
    /\ no_cache => cache_file.json \in {"none", "dict"}
    /\ reviews = <<>> /\ idx = 0 /\ cache = EmptyCache /\ heap = <<>> /\ snapshots = <<>>
    /\ cache_loads = 0 /\ file_reads = 0 /\ file_writes = 0 /\ rendered = <<>>
    /\ pc = "idle"
    /\ retries = DefaultRetries /\ backoff = DefaultBackoff
    /\ extreme_min = DefaultExtremeMin /\ extreme_max = DefaultExtremeMax
    /\ attempt = 0 /\ last_err = NoErr /\ data = NoData /\ data2 = NoData
    /\ tldr = <<>> /\ sentiment = "none" /\ wc = 0 /\ result = NoResult /\ log = <<>>

Next ==
    \/ Fetch \/ LoadCache
    \/ CacheLookupFails \/ ServeFromCache \/ CallSummarise
    \/ PrimaryCall \/ Sleep \/ RepairCall
    \/ StoreSummary \/ SummariseRaised
    \/ SaveCache \/ Render

Spec == Init /\ [][Next]_vars

\* ------------------------------------------------------- reading the log
Primaries == SelectSeq(log, LAMBDA x : x.ev = "primary")
FailedPrimaries == SelectSeq(log, LAMBDA x : x.ev = "primary" /\ ~x.ok)
Repairs == SelectSeq(log, LAMBDA x : x.ev = "repair")
Sleeps == SelectSeq(log, LAMBDA x : x.ev = "sleep")
Finished == pc \in {"returned", "raised"}

\* What an answered tldr field is known to hold, read off the way the answers
\* are built rather than computed by the code: its number of words, and its
\* text without the whitespace around it.
KnownWords ==
    [f \in TldrFields |->
        IF f.t = "missing" THEN 0
        ELSE IF f.t = "null" THEN 1
        ELSE CHOOSE n \in 0..MaxWords :
                \E w \in {<<"a">>, <<"b">>} : f.v \in {Plain(n, w), Padded(n, w)}]

KnownText ==
    [f \in TldrFields |->
        IF f.t = "missing" THEN <<>>
        ELSE IF f.t = "null" THEN <<"N", "o", "n", "e">>
        ELSE IF \E n \in 0..MaxWords, w \in {<<"a">>, <<"b">>} : f.v = Padded(n, w)
        THEN IF KnownWords[f] = 0 THEN <<>>
             ELSE Sentence(KnownWords[f], <<f.v[2]>>, <<" ", " ">>)
        ELSE f.v]

WordsIn(f) == KnownWords[f]
Shown(f) == KnownText[f]

\* the label each answered sentiment field stands for
LabelOf(f) ==
    IF f \in {Str(<<"p", "o", "s">>), Str(<<" ", "P", "o", "s", "i", "t", "i", "v", "e", "\n">>)}
    THEN "pos"
    ELSE IF f = Str(<<"B", "A", "D">>) THEN "neg"
    ELSE "mixed"

Far(n) == n < extreme_min \/ n > extreme_max
RepairAnswered == data2.exc = "none" /\ data2.json = "dict"
RepairBroke == data2 # NoData /\ ~RepairAnswered

\* ------------------------------------------------------------------ C1
\* C1: when every primary call of an invocation has failed, the invocation
\* has not returned a Summary; it makes at most retries + 1 primary calls, and
\* once it is over it has made exactly retries + 1 of them and raised the error
\* of call number retries + 1.
C1_AllFailedRaisesLast ==
    Len(FailedPrimaries) = Len(Primaries) =>
        /\ pc \in {"primary", "sleep", "raised"}
        /\ result = NoResult
        /\ Len(Primaries) <= retries + 1
        /\ pc = "raised" <=> Len(Primaries) = retries + 1
        /\ pc = "raised" => last_err.kind # "none" /\ last_err.call = retries + 1

C1_Witness ==
    /\ pc = "raised" /\ retries = 2 /\ Len(FailedPrimaries) = 3
    /\ last_err.origin = "json.loads"

\* ------------------------------------------------------------------ C2
\* C2: an invocation that returned made k failed primary calls, k <= retries,
\* and then one successful primary call, the last primary call of the
\* invocation; the Summary it returns is derived from that answer: its
\* sentiment is the answer's label and its tldr is the answer's tldr, or the
\* repair's.
C2_ReturnsFirstSuccess ==
    /\ \A j \in 1..Len(Primaries) : Primaries[j].ok => j = Len(Primaries)
    /\ \A j \in 1..Len(Primaries) : Primaries[j].arg = j - 1
    /\ pc = "returned" =>
          LET k == Len(FailedPrimaries)
          IN  /\ k <= retries
              /\ Len(Primaries) = k + 1
              /\ Primaries[k + 1].ok
              /\ data.json = "dict"
              /\ result.sentiment = LabelOf(data.sentiment)
              /\ result.tldr \in (IF RepairAnswered
                                   THEN {Shown(data.tldr), Shown(data2.tldr)}
                                   ELSE {Shown(data.tldr)})
              /\ log[Len(log)].ev \in {"primary", "repair"}

C2_Witness ==
    /\ pc = "returned" /\ retries = 2 /\ Len(FailedPrimaries) = 1 /\ Len(Primaries) = 2
    /\ result.tldr = Plain(Target, <<"a">>)

\* ------------------------------------------------------------------ C3
\* C3: every sleep stands right after a failed primary attempt i < retries and
\* right before attempt i + 1, and lasts backoff * 2^i: the first sleep lasts
\* backoff and each later one twice the one before. Every failed attempt
\* i < retries is followed by its sleep, and nothing else is: the log never
\* starts with a sleep, and no sleep follows a successful attempt, the final
\* failed attempt or a repair call. With the default backoff of 0.8 s (8
\* tenths) two failures sleep 8 and then 16 tenths.
C3_SleepsBetweenAttempts ==
    /\ \A j \in 1..Len(log) :
          log[j].ev = "sleep" =>
             /\ j > 1
             /\ log[j - 1].ev = "primary" /\ ~log[j - 1].ok /\ log[j - 1].arg < retries
             /\ IF j < Len(log)
                THEN log[j + 1].ev = "primary" /\ log[j + 1].arg = log[j - 1].arg + 1
                ELSE pc = "primary"
    /\ \A j \in 1..Len(log) :
          (log[j].ev = "primary" /\ ~log[j].ok) =>
             IF log[j].arg < retries
             THEN IF j < Len(log) THEN log[j + 1].ev = "sleep" ELSE pc = "sleep"
             ELSE j = Len(log) /\ pc = "raised"
    /\ \A j \in 1..Len(Sleeps) :
          Sleeps[j].arg = IF j = 1 THEN backoff ELSE 2 * Sleeps[j - 1].arg
    /\ (backoff = 8 /\ Len(Sleeps) = 2) => <<Sleeps[1].arg, Sleeps[2].arg>> = <<8, 16>>

C3_Witness ==
    /\ pc = "returned" /\ retries = 2 /\ backoff = 8
    /\ Len(FailedPrimaries) = 2
    /\ Len(Sleeps) = 2 /\ Sleeps[1].arg = 8 /\ Sleeps[2].arg = 16

\* ------------------------------------------------------------------ C4
\* C4: there is never more than one repair call; the invocation is about to
\* make one exactly when the primary answer's tldr has fewer than extreme_min or
\* more than extreme_max words, and an invocation that returned has made one
\* exactly in that case.
C4_RepairIffFar ==
    /\ Len(Repairs) <= 1
    /\ pc = "repair" => Far(WordsIn(data.tldr)) /\ Len(Repairs) = 0
    /\ pc = "returned" => Len(Repairs) = (IF Far(WordsIn(data.tldr)) THEN 1 ELSE 0)
    /\ pc \notin {"repair", "returned"} => Len(Repairs) = 0

C4_Witness ==
    /\ pc = "returned" /\ extreme_min = 6 /\ extreme_max = 16
    /\ data.tldr = Str(Plain(3, <<"a">>)) /\ Len(Repairs) = 1

\* ------------------------------------------------------------------ C5
\* C5: when the repair call answered a tldr of wc2 words against wc original
\* words, the returned tldr is the repaired one if |wc2 - 10| < |wc - 10| and
\* the original one otherwise (a tie included).
C5_AdoptsStrictlyCloser ==
    (pc = "returned" /\ RepairAnswered) =>
        LET n == WordsIn(data.tldr)
            n2 == WordsIn(data2.tldr)
        IN  result.tldr = IF Abs(n2 - 10) < Abs(n - 10)
                          THEN Shown(data2.tldr)
                          ELSE Shown(data.tldr)

C5_Witness ==
    /\ pc = "returned" /\ RepairAnswered
    /\ data.tldr = Str(Plain(17, <<"a">>)) /\ data2.tldr = Str(Plain(3, <<"b">>))
    /\ result.tldr = Plain(17, <<"a">>)

\* ------------------------------------------------------------------ C6
\* C6: when the primary answer's tldr has between extreme_min and extreme_max
\* words, no repair call is made and the returned tldr is the answer's tldr:
\* the same words in the same order with the same whitespace between them
\* (only whitespace around the text is dropped).
C6_NearBandKept ==
    (pc = "returned" /\ ~Far(WordsIn(data.tldr))) =>
        /\ Len(Repairs) = 0 /\ data2 = NoData
        /\ result.tldr = Shown(data.tldr)

C6_Witness ==
    /\ pc = "returned" /\ extreme_min = 6 /\ extreme_max = 16
    /\ data.tldr = Str(Plain(13, <<"a">>)) /\ result.tldr = Plain(13, <<"a">>)
    /\ Len(Repairs) = 0

\* ------------------------------------------------------------------ C7
\* C7: when the repair call failed (it raised, or its answer was no JSON
\* object), the invocation has returned, with the primary answer's label and
\* its out-of-range tldr; nothing was raised and the failed repair call is the
\* last thing the invocation did: no sleep and no primary attempt follows it.
C7_RepairFailureKeepsOriginal ==
    RepairBroke =>
        /\ pc = "returned"
        /\ result = [sentiment |-> LabelOf(data.sentiment), tldr |-> Shown(data.tldr)]
        /\ Far(WordsIn(data.tldr))
        /\ log[Len(log)].ev = "repair" /\ ~log[Len(log)].ok
        /\ Len(Repairs) = 1

C7_Witness ==
    /\ RepairBroke /\ data2.exc = "CallError" /\ pc = "returned"
    /\ data.tldr = Str(Plain(3, <<"a">>)) /\ result.tldr = Plain(3, <<"a">>)

\* ------------------------------------------------------------------ C9
\* C9: no primary attempt fails inside _normalize_sentiment: whatever the
\* sentiment field of the answer holds, it is turned into pos, neg or mixed.
C9_NormalizeNeverFails ==
    /\ last_err.origin # "_normalize_sentiment"
    /\ pc \in {"repair", "returned"} => sentiment \in {"pos", "neg", "mixed"}

\* ------------------------------------------------------------------ C8
\* C8: while the loop runs, the reviews before the current one have one
\* snapshot each, in their order; when the run renders, there are as many
\* snapshots as reviews. Every error snapshot carries the author of the review
\* at its position. When summarise has raised for a review, the next step
\* appends an error snapshot with that review's author and moves on to the next
\* review.
ErrorSnapshotsKeepAuthor ==
    \A j \in 1..Len(snapshots) :
        heap[snapshots[j]].error # "absent" =>
            /\ j <= Len(reviews)
            /\ heap[snapshots[j]].author = reviews[j].author

OneSnapshotPerReview ==
    /\ rpc \in {"loop", "summarise"} => Len(snapshots) = idx - 1 /\ idx <= Len(reviews) + 1
    /\ rpc \in {"render", "done"} => Len(snapshots) = Len(reviews)
    /\ rpc = "done" =>
          /\ Len(rendered) = Len(reviews)
          /\ \A j \in 1..Len(rendered) :
                rendered[j].error # "absent" => rendered[j].author = reviews[j].author
    /\ ErrorSnapshotsKeepAuthor

FailureBecomesSnapshot ==
    (rpc = "summarise" /\ pc = "raised") =>
        /\ rpc' = "loop" /\ idx' = idx + 1
        /\ Len(snapshots') = Len(snapshots) + 1
        /\ SubSeq(snapshots', 1, Len(snapshots)) = snapshots
        /\ heap'[snapshots'[idx]].error = last_err.kind
        /\ heap'[snapshots'[idx]].author = reviews[idx].author

C8_EveryReviewOneSnapshot == [](OneSnapshotPerReview) /\ [][FailureBecomesSnapshot]_vars

C8_Witness ==
    /\ rpc = "done" /\ Len(reviews) = 2 /\ Len(rendered) = 2
    /\ rendered[1].error = "CallError" /\ rendered[1].author = "bob"
    /\ reviews[2].author = "alice"
    /\ rendered[2].error = "absent" /\ rendered[2].sentiment = "pos"

\* ------------------------------------------------------------------ C10
\* C10: with caching enabled, an entry of the cache map stays: in every step
\* the key keeps naming the same object and that object keeps its sentiment
\* and its tldr. A review whose text's hash is in the map is handled in one
\* step that starts no summarise invocation and makes no model call, and the
\* snapshot it appends is the entry (when the entry is a JSON object).
EntriesStay ==
    (~no_cache /\ cache.t = "dict") =>
        \A k \in DOMAIN cache.m :
            /\ cache'.t = "dict" /\ k \in DOMAIN cache'.m
            /\ cache'.m[k] = cache.m[k]
            /\ heap'[cache.m[k]].sentiment = heap[cache.m[k]].sentiment
            /\ heap'[cache.m[k]].tldr = heap[cache.m[k]].tldr

HitIsServed ==
    (/\ rpc = "loop" /\ idx <= Len(reviews) /\ ~no_cache
     /\ cache.t = "dict" /\ hash_text(reviews[idx].text) \in DOMAIN cache.m) =>
        LET s == cache.m[hash_text(reviews[idx].text)]
        IN  /\ pc' = "idle" /\ log' = log
            /\ rpc' = "loop" /\ idx' = idx + 1
            /\ heap[s].t = "dict" => snapshots' = Append(snapshots, s)

C10_CachedEntryServedAndStable == [][EntriesStay /\ HitIsServed]_vars

C10_Witness ==
    /\ rpc = "done" /\ ~no_cache /\ Len(reviews) = 2
    /\ reviews[1].text = reviews[2].text
    /\ Len(heap) = 1 /\ snapshots = <<1, 1>>
    /\ cache.m[hash_text(reviews[2].text)] = 1
    /\ heap[1].sentiment = "neg" /\ heap[1].tldr = Plain(Target, <<"b">>)

\* ------------------------------------------------------------------ C11
\* C11: with caching enabled, every object the cache map names carries no
\* author and no recommended flag, and so does every entry of the cache file
\* once the run has written it.
C11_CacheHoldsOnlySummaries ==
    /\ (~no_cache /\ rpc \in {"loop", "summarise", "render", "done"}) =>
          \A k \in DOMAIN cache.m :
              /\ heap[cache.m[k]].author = "absent"
              /\ heap[cache.m[k]].recommended = "absent"
    /\ file_writes > 0 =>
          \A k \in DOMAIN cache_file.entries :
              /\ cache_file.entries[k].author = "absent"
              /\ cache_file.entries[k].recommended = "absent"

\* ------------------------------------------------------------------ C12
\* C12: a run whose review fetch failed has stopped with the failure exit and
\* has done nothing else: no summarise invocation and no model call, no load
\* and no read of the cache file, no write of it, and no snapshot kept or
\* rendered. Nothing happens after the failure exit.
AbortedBeforeAnything ==
    rpc = "exit1" =>
        /\ pc = "idle" /\ log = <<>> /\ result = NoResult
        /\ cache_loads = 0 /\ file_reads = 0 /\ file_writes = 0
        /\ cache = EmptyCache /\ heap = <<>>
        /\ snapshots = <<>> /\ rendered = <<>>
        /\ cache_file \in FileChoices

ExitIsFinal == rpc = "exit1" => rpc' = "exit1"

C12_FetchFailureAborts == [](AbortedBeforeAnything) /\ [][ExitIsFinal]_vars

C12_Witness ==
    /\ rpc = "exit1" /\ ~no_cache
    /\ cache_file.state = "json" /\ cache_file.json = "dict"

\* ------------------------------------------------------------------ C13
\* C13: with caching enabled, once the cache is loaded it is a mapping, and
\* while the file on disk is still the one that was loaded and is missing, not
\* JSON or no JSON object, the mapping is empty and no review has failed with
\* a TypeError.
FileIsNoMapping == cache_file.state # "json" \/ cache_file.json # "dict"

C13_LoadAlwaysYieldsMapping ==
    (~no_cache /\ rpc \in {"loop", "summarise"}) =>
        /\ cache.t = "dict"
        /\ FileIsNoMapping =>
              /\ idx = 1 => DOMAIN cache.m = {}
              /\ \A j \in 1..Len(snapshots) : heap[snapshots[j]].error # "TypeError"

\* ------------------------------------------------------------------ C14
\* C14: from the moment the primary answer is accepted, the sentiment of the
\* invocation is the label of the primary answer's sentiment field, and the
\* returned Summary carries it: whatever the repair call answered, and whether
\* or not its tldr was adopted.
C14_SentimentFromPrimaryOnly ==
    /\ pc = "repair" => sentiment = LabelOf(data.sentiment)
    /\ pc = "returned" =>
          /\ result.sentiment = LabelOf(data.sentiment)
          /\ result.sentiment \in {"pos", "neg", "mixed"}

C14_Witness ==
    /\ pc = "returned" /\ RepairAnswered
    /\ data.sentiment = Str(<<" ", "P", "o", "s", "i", "t", "i", "v", "e", "\n">>)
    /\ data2.sentiment = Str(<<"n", "e", "g">>)
    /\ data.tldr = Str(Plain(3, <<"a">>))
    /\ result = [sentiment |-> "pos", tldr |-> Plain(Target, <<"b">>)]

\* ------------------------------------------------------------------ C15
\* C15: with extreme_min >= 1, a primary answer whose tldr has no word (empty,
\* only whitespace, or missing) leads to the repair call, exactly one; when the
\* repair's tldr has no word either, the invocation returns a Summary whose
\* tldr is the empty string: nothing is raised and the repair call is the last
\* model call.
Wordless(f) == f \in {Str(<<>>), Str(<<"\n", " ">>), NoField}

C15_EmptyTldrRepairedOnce ==
    (extreme_min >= 1 /\ Wordless(data.tldr) /\ data.json = "dict") =>
        /\ pc \in {"repair", "returned"}
        /\ pc = "repair" => Len(Repairs) = 0 /\ tldr = <<>> /\ wc = 0
        /\ pc = "returned" =>
              /\ Len(Repairs) = 1
              /\ log[Len(log)].ev = "repair"
              /\ (RepairAnswered /\ Wordless(data2.tldr)) => result.tldr = <<>>

C15_Witness ==
    /\ pc = "returned"
    /\ data.tldr = Str(<<"\n", " ">>) /\ data2.tldr = Str(<<>>)
    /\ Len(Repairs) = 1 /\ result.tldr = <<>> /\ result.sentiment = "pos"

\* ------------------------------------------------------------------ C16
\* C16: once the run has rendered, every snapshot at position i that is not
\* an error snapshot carries the author and the recommended flag of review i,
\* also when two reviews by different authors have the same text.
C16_SnapshotCarriesItsReview ==
    rpc = "done" =>
        /\ Len(rendered) = Len(reviews)
        /\ \A j \in 1..Len(rendered) :
              rendered[j].error = "absent" =>
                  /\ rendered[j].author = reviews[j].author
                  /\ rendered[j].recommended = RecFlag(reviews[j].recommended)

\* ------------------------------------------------------------------ C17
\* C17: one invocation makes at most one repair call, never a primary call
\* after a repair call, and at most retries + 2 model calls in all; and, every
\* model call coming back, it ends by returning a Summary or by raising.
CallsBounded ==
    /\ Len(Repairs) <= 1
    /\ \A i, j \in 1..Len(log) :
          (i < j /\ log[i].ev = "repair") => log[j].ev # "primary"
    /\ Len(Primaries) + Len(Repairs) <= retries + 2
    /\ Len(Primaries) <= retries + 1

C17_BoundedCallsThenEnds == [](CallsBounded) /\ <>Finished

C17_Witness ==
    /\ pc = "returned" /\ retries = MaxRetries
    /\ Len(Primaries) = retries + 1 /\ Len(Repairs) = 1
    /\ log[Len(log)].ev = "repair"

\* ------------------------------------------------------------------ C18
\* C18: the step that handles a failed summarisation leaves the cache map and
\* every object it names as they were; and when a review comes up whose text
\* is that of the review before it, which failed in summarise, with caching
\* enabled and a cache that is a mapping, its key is not in the cache and the
\* next step is a fresh summarise call.
FailedCallKinds == {"CallError", "JSONDecodeError", "AttributeError"}

FailureLeavesCache ==
    (rpc = "summarise" /\ pc = "raised") =>
        /\ cache' = cache
        /\ \A k \in DOMAIN cache.m : heap'[cache.m[k]] = heap[cache.m[k]]

SameTextAfterFailure ==
    /\ ~no_cache /\ cache.t = "dict"
    /\ rpc = "loop" /\ idx > 1 /\ idx <= Len(reviews)
    /\ reviews[idx].text = reviews[idx - 1].text
    /\ heap[snapshots[idx - 1]].error \in FailedCallKinds

FailureIsNotReused ==
    SameTextAfterFailure =>
        /\ hash_text(reviews[idx].text) \notin DOMAIN cache.m
        /\ rpc' = "summarise" /\ pc' = "primary" /\ log' = <<>>

C18_FailureLeavesCacheAlone == [][FailureLeavesCache /\ FailureIsNotReused]_vars

C18_Witness ==
    /\ rpc = "done" /\ ~no_cache /\ cache.t = "dict"
    /\ Len(reviews) = 2 /\ reviews[1].text = reviews[2].text
    /\ rendered[1].error = "CallError"
    /\ rendered[2].error = "absent" /\ rendered[2].sentiment \in {"pos", "mixed"}
    /\ DOMAIN cache.m = {hash_text(reviews[2].text)}

\* ------------------------------------------------------------------ C19
\* C19: in a run whose fetch succeeded, with caching enabled the cache file is
\* loaded once, before any review is processed (read once when it exists; a
\* missing file is only looked for), and written once, after the last review
\* is processed, whatever the reviews' outcomes; with caching disabled it is
\* never read or written and every review leads to a summarise call.
FileTouchedOnceEachWay ==
    /\ no_cache =>
          cache_loads = 0 /\ file_reads = 0 /\ file_writes = 0
    /\ (~no_cache /\ rpc \in {"fetch", "load"}) =>
          /\ cache_loads = 0 /\ file_reads = 0 /\ file_writes = 0
          /\ snapshots = <<>> /\ log = <<>>
    /\ (~no_cache /\ rpc \in {"loop", "summarise"}) =>
          /\ cache_loads = 1 /\ file_writes = 0
          /\ file_reads = (IF cache_file.state = "missing" THEN 0 ELSE 1)
    /\ (~no_cache /\ rpc \in {"render", "done"}) =>
          /\ cache_loads = 1 /\ file_reads <= 1 /\ file_writes = 1
          /\ Len(snapshots) = Len(reviews) /\ pc = "idle"

FileStepsInOrder ==
    /\ no_cache => cache_file' = cache_file
    /\ cache_loads' # cache_loads => rpc = "load" /\ rpc' = "loop" /\ idx' = 1
    /\ file_writes' # file_writes =>
          rpc = "loop" /\ idx > Len(reviews) /\ Len(snapshots) = Len(reviews)
    /\ cache_file' # cache_file => file_writes' = file_writes + 1
    /\ (no_cache /\ rpc = "loop" /\ idx <= Len(reviews)) =>
          rpc' = "summarise" /\ pc' = "primary"

C19_CacheFileReadAndWrittenOnce ==
    [](FileTouchedOnceEachWay) /\ [][FileStepsInOrder]_vars

C19_Witness ==
    /\ rpc = "done" /\ ~no_cache
    /\ Len(reviews) = 2
    /\ rendered[1].error = "CallError" /\ rendered[2].error = "CallError"
    /\ cache_loads = 1 /\ file_reads = 1 /\ file_writes = 1
    /\ cache_file.state = "json" /\ cache_file.json = "dict"

====
